---- MODULE Spec2Model ----
(***************************************************************************)
(* Model of the generated chatbot runtime of Kickflip Studio               *)
(* (src/unnamed/part_000, ChatbotGenerator): the user state manager, the   *)
(* intent handler, the conversation flow handler, the product              *)
(* recommendation handler and the chatbot controller's message route.      *)
(*                                                                         *)
(* Every HTTP request is a process p.  An async function is cut at its     *)
(* awaits: each action below is the code that runs between two awaits, so  *)
(* requests interleave exactly where the event loop lets them.             *)
(***************************************************************************)
EXTENDS Integers, Sequences, FiniteSets, TLC

(* ---------------------------------------------------------------- bounds *)
\* requests accepted by the message route in the concurrent specification
MaxCalls == 3
\* requests accepted in the one-request-at-a-time specification
MaxSeqCalls == 4
\* largest messageCount handed to the pure functions in PureSpec
MaxProbeCount == 7

(* ------------------------------------------------------------ JS values *)
Null == "<null>"
Undefined == "<undefined>"
\* new Date(): timestamps never steer the control flow, one token stands for them
Date == "<date>"

\* JavaScript truthiness of the string-like values of the model
Truthy(v) == v \notin {"", Null, Undefined}

\* mutant: one state object shared by every key of the map
MapSet_allKeys(m, k, v) == [x \in (DOMAIN m) \cup {k} |-> v]

\* m.set(k, v) on a Map held as a function with a growing domain
MapSet(m, k, v) == [x \in (DOMAIN m) \cup {k} |-> IF x = k THEN v ELSE m[x]]

(* ------------------------------------------------------------ input sets *)
Procs == {"p1", "p2"}
SeqProcs == {"p1"}
UserIds == {"u1", "u2"}
SeqUserIds == {"u1"}
\* request bodies: two message texts, and the empty (or missing) message
Messages == {"hi", "buy"}
Bodies == Messages \cup {""}

\* the closed category set of the classification prompt
Intents ==
  { "greeting", "product_inquiry", "price_inquiry", "shipping_inquiry",
    "return_policy", "checkout_help", "objection", "complaint",
    "general_question" }
\* a label outside the closed set, as the completion service may return it
UnknownLabel == "small_talk"

\* process.env.OFFER_TIMING: Undefined stands for every falsy value (unset or
\* empty), "late" and "never" for explicitly set values other than the two
\* the code names
EnvValues == {Undefined, "early", "balanced", "late", "never"}

\* what the completion service can answer to the classification request:
\* a failure (transport error, no choices, unparsable text), the JSON value
\* null (content null or the text "null"), or a JSON object whose intent
\* property is a label, an unknown label, or missing
ClassifierReplies ==
  { [kind |-> "error"], [kind |-> "null"] }
    \cup { [kind |-> "object", intent |-> i] :
             i \in Intents \cup {UnknownLabel, Undefined} }

\* the replies drawn where two clients race: both failures, and objects with
\* two labels of the set, an unknown label and no label
RacingReplies ==
  { [kind |-> "error"], [kind |-> "null"] }
    \cup { [kind |-> "object", intent |-> i] :
             i \in {"product_inquiry", UnknownLabel} }
RacingEnvValues == {"early"}

HandlerAction == [type |-> "handler_action"]
Apology == "I'm sorry, I'm having trouble processing your request right now. Can you try again?"

\* what an intent handler can do: return {response} without actions, return
\* {response, actions}, or throw (also: return nothing)
HandlerOutcomes ==
  { [kind |-> "throw"],
    [kind |-> "return", response |-> "reply"],
    [kind |-> "return", response |-> "reply", actions |-> <<HandlerAction>>] }

Product == [name |-> "deck"]
\* what the completion service can answer to the recommendation request:
\* a failure, an object without recommendations, an empty or a non-empty list
RecommenderReplies ==
  { [kind |-> "error"],
    [kind |-> "object"],
    [kind |-> "object", recommendations |-> <<>>],
    [kind |-> "object", recommendations |-> <<Product>>] }

RacingHandlerOutcomes ==
  { [kind |-> "throw"], [kind |-> "return", response |-> "reply"] }
RacingRecommenderReplies ==
  { [kind |-> "error"], [kind |-> "object", recommendations |-> <<Product>>] }

(* ----------------------------------------------------------------- state *)
VARIABLES
  userStates,     \* user-state-manager: the module-level Map userId -> state
  OFFER_TIMING,   \* process.env.OFFER_TIMING
  frame,          \* per request: position and locals of the route/processMessage
  nCalls,         \* history: processMessage invocations per userId
  probe           \* PureSpec: the last direct application of a pure function

vars == <<userStates, OFFER_TIMING, frame, nCalls, probe>>

(* ---------------------------------------------------- user-state-manager *)
\* the default state getUserState stores for an unknown userId
DefaultState ==
  [ conversationHistory |-> <<>>,
    preferences |-> <<>>,
    lastIntent |-> Null,
    lastMessage |-> Null,
    messageCount |-> 0,
    stage |-> "greeting",
    createdAt |-> Date,
    updatedAt |-> Undefined ]

\* the Map after getUserState(userId) ran: an unknown userId got the default
StoreAfterGet(userId) ==
  IF userId \in DOMAIN userStates
    THEN userStates
    ELSE MapSet(userStates, userId, DefaultState)

\* the object getUserState(userId) returns
getUserState(userId) == StoreAfterGet(userId)[userId]

\* mutant: a conversation that reached 'engagement' stays there
determineConversationStage_stickyEngagement(state) ==
  IF state.messageCount <= 1 THEN "greeting"
  ELSE IF state.stage = "engagement" THEN "engagement"
  ELSE IF state.lastIntent = "checkout_help" THEN "checkout"
  ELSE IF state.lastIntent = "product_inquiry" \/ state.lastIntent = "price_inquiry"
    THEN "product_discovery"
  ELSE IF state.lastIntent = "objection" THEN "objection_handling"
  ELSE IF state.messageCount >= 5 THEN "engagement"
  ELSE "information"

\* mutant: the engagement rule tried before the objection rule
determineConversationStage_engagementFirst(state) ==
  IF state.messageCount <= 1 THEN "greeting"
  ELSE IF state.lastIntent = "checkout_help" THEN "checkout"
  ELSE IF state.lastIntent = "product_inquiry" \/ state.lastIntent = "price_inquiry"
    THEN "product_discovery"
  ELSE IF state.messageCount >= 5 THEN "engagement"
  ELSE IF state.lastIntent = "objection" THEN "objection_handling"
  ELSE "information"

\* mutant: the greeting rule ends before the first message (< 1 for <= 1)
determineConversationStage_greetingBelowOne(state) ==
  IF state.messageCount < 1 THEN "greeting"
  ELSE IF state.lastIntent = "checkout_help" THEN "checkout"
  ELSE IF state.lastIntent = "product_inquiry" \/ state.lastIntent = "price_inquiry"
    THEN "product_discovery"
  ELSE IF state.lastIntent = "objection" THEN "objection_handling"
  ELSE IF state.messageCount >= 5 THEN "engagement"
  ELSE "information"

\* the ordered rules of the stage; first match wins
determineConversationStage(state) ==
  IF state.messageCount <= 1 THEN "greeting"
  ELSE IF state.lastIntent = "checkout_help" THEN "checkout"
  ELSE IF state.lastIntent = "product_inquiry" \/ state.lastIntent = "price_inquiry"
    THEN "product_discovery"
  ELSE IF state.lastIntent = "objection" THEN "objection_handling"
  ELSE IF state.messageCount >= 5 THEN "engagement"
  ELSE "information"

\* mutant: the guard against a repeated message never finds one
SomeUserEntry_never(history, text) == FALSE

\* conversationHistory.some(msg => msg.role === 'user' && msg.content === text)
SomeUserEntry(history, text) ==
  \E i \in 1..Len(history) :
    history[i].role = "user" /\ history[i].content = text

\* mutant: the stage computed from the state before the updates are applied
updateUserState_staleStage(userId, updates) ==
  LET currentState == StoreAfterGet(userId)[userId]
      spread == [ currentState EXCEPT
                    !.lastIntent = updates.lastIntent,
                    !.lastMessage = updates.lastMessage,
                    !.messageCount = updates.messageCount,
                    !.updatedAt = Date ]
      withHistory ==
        IF Truthy(updates.lastMessage)
             /\ ~SomeUserEntry(currentState.conversationHistory, updates.lastMessage)
          THEN [ spread EXCEPT !.conversationHistory =
                   Append(currentState.conversationHistory,
                          [ role |-> "user", content |-> updates.lastMessage,
                            timestamp |-> Date ]) ]
          ELSE spread
  IN [ withHistory EXCEPT !.stage = determineConversationStage(currentState) ]

\* mutant: the new user entry replaces the stored history
updateUserState_freshHistory(userId, updates) ==
  LET currentState == StoreAfterGet(userId)[userId]
      spread == [ currentState EXCEPT
                    !.lastIntent = updates.lastIntent,
                    !.lastMessage = updates.lastMessage,
                    !.messageCount = updates.messageCount,
                    !.updatedAt = Date ]
      withHistory ==
        IF Truthy(updates.lastMessage)
           /\ ~SomeUserEntry(currentState.conversationHistory, updates.lastMessage)
          THEN [ spread EXCEPT
                   !.conversationHistory =
                     << [ role |-> "user", content |-> updates.lastMessage,
                          timestamp |-> Date ] >> ]
          ELSE spread
  IN [ withHistory EXCEPT !.stage = determineConversationStage(withHistory) ]

\* mutant: the count is incremented from the stored state, not taken from
\* the updates
updateUserState_countsStored(userId, updates) ==
  LET currentState == StoreAfterGet(userId)[userId]
      spread == [ currentState EXCEPT
                    !.lastIntent = updates.lastIntent,
                    !.lastMessage = updates.lastMessage,
                    !.messageCount = currentState.messageCount + 1,
                    !.updatedAt = Date ]
      withHistory ==
        IF Truthy(updates.lastMessage)
           /\ ~SomeUserEntry(currentState.conversationHistory, updates.lastMessage)
          THEN [ spread EXCEPT
                   !.conversationHistory =
                     Append(currentState.conversationHistory,
                            [ role |-> "user", content |-> updates.lastMessage,
                              timestamp |-> Date ]) ]
          ELSE spread
  IN [ withHistory EXCEPT !.stage = determineConversationStage(withHistory) ]

\* the newState updateUserState(userId, updates) builds and stores; updates
\* carries lastIntent, lastMessage and messageCount, as processMessage passes
updateUserState(userId, updates) ==
  LET currentState == getUserState(userId)
      spread == [ currentState EXCEPT
                    !.lastIntent = updates.lastIntent,
                    !.lastMessage = updates.lastMessage,
                    !.messageCount = updates.messageCount,
                    !.updatedAt = Date ]
      withHistory ==
        IF Truthy(updates.lastMessage)
             /\ ~SomeUserEntry(currentState.conversationHistory, updates.lastMessage)
          THEN [ spread EXCEPT !.conversationHistory =
                   Append(currentState.conversationHistory,
                          [ role |-> "user", content |-> updates.lastMessage,
                            timestamp |-> Date ]) ]
          ELSE spread
  IN [ withHistory EXCEPT !.stage = determineConversationStage(withHistory) ]

\* mutant: an answer the history already holds is not appended again
addBotResponse_deduplicated(userId, response) ==
  LET currentState == StoreAfterGet(userId)[userId]
      history == currentState.conversationHistory
  IN IF \E i \in 1..Len(history) :
          history[i].role = "assistant" /\ history[i].content = response
       THEN [ currentState EXCEPT !.updatedAt = Date ]
       ELSE [ currentState EXCEPT
                !.conversationHistory =
                  Append(history, [ role |-> "assistant", content |-> response,
                                    timestamp |-> Date ]),
                !.updatedAt = Date ]

\* mutant: the answer counts as a message and the stage is computed again
addBotResponse_countsAnswer(userId, response) ==
  LET currentState == StoreAfterGet(userId)[userId]
      counted == [ currentState EXCEPT
                     !.conversationHistory =
                       Append(currentState.conversationHistory,
                              [ role |-> "assistant", content |-> response,
                                timestamp |-> Date ]),
                     !.messageCount = @ + 1,
                     !.updatedAt = Date ]
  IN [ counted EXCEPT !.stage = determineConversationStage(counted) ]

\* mutant: the new history holds the response alone (the spread forgotten)
addBotResponse_historyReplaced(userId, response) ==
  LET currentState == getUserState(userId)
  IN [ currentState EXCEPT
         !.conversationHistory =
           << [ role |-> "assistant", content |-> response,
                timestamp |-> Date ] >>,
         !.updatedAt = Date ]

\* the newState addBotResponse(userId, response) builds and stores
addBotResponse(userId, response) ==
  LET currentState == getUserState(userId)
  IN [ currentState EXCEPT
         !.conversationHistory =
           Append(currentState.conversationHistory,
                  [ role |-> "assistant", content |-> response,
                    timestamp |-> Date ]),
         !.updatedAt = Date ]

(* --------------------------------------------------------- intent-handler *)
\* mutant: the catch block logs the error and returns nothing, so a failed
\* classification resolves to a value that has no intent to destructure
classifyIntent_noFallback(reply) ==
  IF reply.kind = "error" \/ reply.kind = "null"
    THEN [json |-> "null"]
  ELSE [json |-> "object", intent |-> reply.intent, confidence |-> "0.95"]

\* the value classifyIntent resolves to: the parsed JSON value of the reply,
\* or the fallback when the request or JSON.parse threw
classifyIntent(reply) ==
  IF reply.kind = "error"
    THEN [json |-> "object", intent |-> "general_question", confidence |-> "0.5"]
  ELSE IF reply.kind = "null"
    THEN [json |-> "null"]
  ELSE [json |-> "object", intent |-> reply.intent, confidence |-> "0.95"]

\* intentHandlers: the modules the table requires, by intent
intentHandlers ==
  [ greeting |-> "welcome-handler",
    product_inquiry |-> "product-inquiry-handler",
    price_inquiry |-> "price-inquiry-handler",
    shipping_inquiry |-> "shipping-inquiry-handler",
    return_policy |-> "return-policy-handler",
    checkout_help |-> "checkout-handler",
    objection |-> "objection-handler",
    complaint |-> "complaint-handler",
    general_question |-> "general-question-handler" ]

\* members the object literal inherits from Object.prototype (two of them);
\* a property read finds them like the table's own keys, and they are truthy
ObjectPrototype ==
  [ constructor |-> "Object", toString |-> "Object.prototype.toString" ]

\* intentHandlers[intent] || intentHandlers.general_question
getHandlerForIntent(intent) ==
  IF intent \in DOMAIN intentHandlers
    THEN intentHandlers[intent]
  ELSE IF intent \in DOMAIN ObjectPrototype
    THEN ObjectPrototype[intent]
  ELSE intentHandlers.general_question

(* ------------------------------------------ product-recommendation-handler *)
\* mutant: a failed request resolves to a stock recommendation
getProductRecommendations_stockOnError(reply) ==
  IF reply.kind = "error" THEN <<Product>>
  ELSE IF "recommendations" \in DOMAIN reply THEN reply.recommendations
  ELSE <<>>

\* the list getProductRecommendations resolves to: result.recommendations || [],
\* or [] when the request or JSON.parse threw
getProductRecommendations(reply) ==
  IF reply.kind = "error" THEN <<>>
  ELSE IF "recommendations" \in DOMAIN reply THEN reply.recommendations
  ELSE <<>>

(* ------------------------------------------------ conversation-flow-handler *)
\* userState.messageCount || 0
CountOrZero(userState) ==
  IF "messageCount" \in DOMAIN userState THEN userState.messageCount ELSE 0

\* mutant: an unset mode falls to the last branch ('late' for 'balanced')
offerTiming_lateDefault == IF Truthy(OFFER_TIMING) THEN OFFER_TIMING ELSE "late"

\* process.env.OFFER_TIMING || 'balanced'
offerTiming == IF Truthy(OFFER_TIMING) THEN OFFER_TIMING ELSE "balanced"

\* mutant: the product_inquiry rule is missing
shouldOfferRecommendations_noProductRule(intent, userState) ==
  IF offerTiming = "early" THEN CountOrZero(userState) >= 2
  ELSE IF offerTiming = "balanced" THEN CountOrZero(userState) >= 3
  ELSE CountOrZero(userState) >= 5

\* mutant: 'early' recommends after more than 2 messages (> for >=)
shouldOfferRecommendations_strictEarly(intent, userState) ==
  IF intent = "product_inquiry" THEN TRUE
  ELSE IF offerTiming = "early" THEN CountOrZero(userState) > 2
  ELSE IF offerTiming = "balanced" THEN CountOrZero(userState) >= 3
  ELSE CountOrZero(userState) >= 5

shouldOfferRecommendations(intent, userState) ==
  IF intent = "product_inquiry" THEN TRUE
  ELSE IF offerTiming = "early" THEN CountOrZero(userState) >= 2
  ELSE IF offerTiming = "balanced" THEN CountOrZero(userState) >= 3
  ELSE CountOrZero(userState) >= 5

\* mutant: the handler's actions are dropped
ActionsOrEmpty_dropped(result) == <<>>

\* result.actions || []
ActionsOrEmpty(result) ==
  IF "actions" \in DOMAIN result THEN result.actions ELSE <<>>

RecommendationAction(recommendations) ==
  [type |-> "product_recommendations", products |-> recommendations]

(* --------------------------------------------------------------- requests *)
\* a request that is not running; status is the HTTP status of its last answer.
\* Besides processMessage's locals a running request keeps, in caught, the
\* names of the functions whose catch block has run for it, and in requests
\* the number of completion requests it has issued so far.
IdleFrame(status) ==
  [ pc |-> "idle", status |-> status, userId |-> "", message |-> "",
    userState |-> DefaultState, intent |-> Undefined,
    confidence |-> Undefined, handler |-> "",
    result |-> [kind |-> "none"],
    policyEvaluated |-> FALSE, offer |-> FALSE, recommendations |-> <<>>,
    caught |-> {},
    requests |-> [classifyIntent |-> 0, getProductRecommendations |-> 0],
    response |-> "", actions |-> <<>> ]

Total(count) == count["u1"] + count["u2"]

InitWith(envs) ==
  /\ userStates = <<>>
  /\ OFFER_TIMING \in envs
  /\ frame = [p \in Procs |-> IdleFrame("none")]
  /\ nCalls = [u \in UserIds |-> 0]
  /\ probe = [fn |-> "none"]

\* mutant: processMessage has no catch; the error reaches the route, whose own
\* catch answers with status 500
Caught_rethrows(f) == [IdleFrame("500") EXCEPT !.caught = {"route"}]

\* processMessage's catch: the apology and no actions go back to the route
Caught(f) ==
  [ f EXCEPT !.pc = "respond", !.caught = @ \cup {"processMessage"},
             !.response = Apology, !.actions = <<>> ]

\* mutant: the state is looked up before the message is validated
RejectMessage_createsState(p, ids) ==
  /\ frame[p].pc = "idle"
  /\ \E id \in ids, body \in Bodies :
       /\ ~Truthy(body)
       /\ userStates' = StoreAfterGet(id)
       /\ frame' = [frame EXCEPT ![p] = IdleFrame("400")]
  /\ UNCHANGED <<OFFER_TIMING, nCalls, probe>>

\* the message route with a missing or empty message: status 400
RejectMessage(p, ids) ==
  /\ frame[p].pc = "idle"
  /\ \E id \in ids, body \in Bodies :
       /\ ~Truthy(body)
       /\ frame' = [frame EXCEPT ![p] = IdleFrame("400")]
  /\ UNCHANGED <<userStates, OFFER_TIMING, nCalls, probe>>

\* mutant: the count and the message are stored before the classification
ReceiveMessage_updatesFirst(p, ids, limit) ==
  /\ frame[p].pc = "idle"
  /\ Total(nCalls) < limit
  /\ \E id \in ids, body \in Bodies :
       /\ Truthy(body)
       /\ userStates' =
            MapSet(StoreAfterGet(id), id,
                   [ StoreAfterGet(id)[id] EXCEPT
                       !.lastMessage = body, !.messageCount = @ + 1 ])
       /\ frame' = [frame EXCEPT ![p] =
            [ IdleFrame("none") EXCEPT
                !.pc = "classify", !.userId = id, !.message = body,
                !.userState = StoreAfterGet(id)[id] ]]
       /\ nCalls' = [nCalls EXCEPT ![id] = @ + 1]
  /\ UNCHANGED <<OFFER_TIMING, probe>>

\* the message route up to processMessage's first await: getUserState
ReceiveMessage(p, ids, limit) ==
  /\ frame[p].pc = "idle"
  /\ Total(nCalls) < limit
  /\ \E id \in ids, body \in Bodies :
       /\ Truthy(body)
       /\ userStates' = StoreAfterGet(id)
       /\ frame' = [frame EXCEPT ![p] =
            [ IdleFrame("none") EXCEPT
                !.pc = "classify", !.userId = id, !.message = body,
                !.userState = getUserState(id) ]]
       /\ nCalls' = [nCalls EXCEPT ![id] = @ + 1]
  /\ UNCHANGED <<OFFER_TIMING, probe>>

\* mutant: a failed classification request is issued once more
Classify_retries(p, replies) ==
  /\ frame[p].pc = "classify"
  /\ \E reply \in replies :
       LET r == classifyIntent(reply)
           f == [frame[p] EXCEPT
                   !.requests.classifyIntent = @ + 1,
                   !.caught = IF reply.kind = "error"
                                THEN @ \cup {"classifyIntent"} ELSE @]
       IN frame' = [frame EXCEPT ![p] =
            IF reply.kind = "error" /\ f.requests.classifyIntent < 2
              THEN f
            ELSE IF r.json = "null"
              THEN Caught(f)
              ELSE [f EXCEPT !.pc = "update", !.intent = r.intent,
                             !.confidence = r.confidence]]
  /\ UNCHANGED <<userStates, OFFER_TIMING, nCalls, probe>>

\* await classifyIntent(message), and the destructuring of what it resolved to
Classify(p, replies) ==
  /\ frame[p].pc = "classify"
  /\ \E reply \in replies :
       LET r == classifyIntent(reply)
           f == [frame[p] EXCEPT
                   !.requests.classifyIntent = @ + 1,
                   !.caught = IF reply.kind = "error"
                                THEN @ \cup {"classifyIntent"} ELSE @]
       IN frame' = [frame EXCEPT ![p] =
            IF r.json = "null"
              THEN Caught(f)
              ELSE [f EXCEPT !.pc = "update", !.intent = r.intent,
                             !.confidence = r.confidence]]
  /\ UNCHANGED <<userStates, OFFER_TIMING, nCalls, probe>>

\* mutant: the update changes the loaded state object in place, so the call
\* goes on with the updated state
UpdateState_inPlace(p) ==
  /\ frame[p].pc = "update"
  /\ LET f == frame[p]
         newState == updateUserState(f.userId,
                       [ lastIntent |-> f.intent,
                         lastMessage |-> f.message,
                         messageCount |-> CountOrZero(f.userState) + 1 ])
     IN /\ userStates' = MapSet(StoreAfterGet(f.userId), f.userId, newState)
        /\ frame' = [frame EXCEPT ![p].pc = "handle",
                                  ![p].userState = newState]
  /\ UNCHANGED <<OFFER_TIMING, nCalls, probe>>

\* mutant: the update is held back until the turn has succeeded, and dropped
UpdateState_deferred(p) ==
  /\ frame[p].pc = "update"
  /\ frame' = [frame EXCEPT ![p].pc = "handle"]
  /\ UNCHANGED <<userStates, OFFER_TIMING, nCalls, probe>>

\* await updateUserState(userId, {lastIntent, lastMessage, messageCount})
UpdateState(p) ==
  /\ frame[p].pc = "update"
  /\ LET f == frame[p] IN
     userStates' =
       MapSet(StoreAfterGet(f.userId), f.userId,
              updateUserState(f.userId,
                [ lastIntent |-> f.intent,
                  lastMessage |-> f.message,
                  messageCount |-> CountOrZero(f.userState) + 1 ]))
  /\ frame' = [frame EXCEPT ![p].pc = "handle"]
  /\ UNCHANGED <<OFFER_TIMING, nCalls, probe>>

\* getHandlerForIntent, await handler(message, userState), and the policy
RunHandler(p, outcomes) ==
  /\ frame[p].pc = "handle"
  /\ \E result \in outcomes :
       LET f == [frame[p] EXCEPT !.handler = getHandlerForIntent(frame[p].intent)]
           offer == shouldOfferRecommendations(f.intent, f.userState)
       IN frame' = [frame EXCEPT ![p] =
            IF result.kind = "throw"
              THEN Caught(f)
              ELSE [ f EXCEPT
                       !.result = result,
                       !.pc = IF offer THEN "recommend" ELSE "respond",
                       !.policyEvaluated = TRUE,
                       !.offer = offer,
                       !.response = result.response,
                       !.actions = ActionsOrEmpty(result) ]]
  /\ UNCHANGED <<userStates, OFFER_TIMING, nCalls, probe>>

\* await getProductRecommendations(message, userState), and the return
Recommend(p, replies) ==
  /\ frame[p].pc = "recommend"
  /\ \E reply \in replies :
       LET recommendations == getProductRecommendations(reply) IN
       frame' = [frame EXCEPT ![p] =
         [ @ EXCEPT
             !.pc = "respond",
             !.recommendations = recommendations,
             !.requests.getProductRecommendations = @ + 1,
             !.caught = IF reply.kind = "error"
                          THEN @ \cup {"getProductRecommendations"} ELSE @,
             !.actions = IF Len(recommendations) > 0
                           THEN Append(@, RecommendationAction(recommendations))
                           ELSE @ ]]
  /\ UNCHANGED <<userStates, OFFER_TIMING, nCalls, probe>>

\* the route after processMessage resolved: addBotResponse, then res.json
Respond(p) ==
  /\ frame[p].pc = "respond"
  /\ LET f == frame[p] IN
     userStates' =
       MapSet(StoreAfterGet(f.userId), f.userId,
              addBotResponse(f.userId, f.response))
  /\ frame' = [frame EXCEPT ![p] = IdleFrame("200")]
  /\ UNCHANGED <<OFFER_TIMING, nCalls, probe>>

\* the start route: a fresh conversationId goes back, no state is touched
StartConversation(p, ids) ==
  /\ frame[p].pc = "idle"
  /\ \E id \in ids :
       probe' = [fn |-> "startConversation", conversationId |-> id]
  /\ UNCHANGED <<userStates, OFFER_TIMING, frame, nCalls>>

\* mutant: ending a conversation removes its stored state
EndConversation_evicts(p, ids) ==
  /\ frame[p].pc = "idle"
  /\ \E id \in ids :
       /\ probe' = [fn |-> "endConversation", conversationId |-> id]
       /\ userStates' = [u \in (DOMAIN userStates) \ {id} |-> userStates[u]]
  /\ UNCHANGED <<OFFER_TIMING, frame, nCalls>>

\* the end route: a placeholder that answers and touches no state
EndConversation(p, ids) ==
  /\ frame[p].pc = "idle"
  /\ \E id \in ids :
       probe' = [fn |-> "endConversation", conversationId |-> id]
  /\ UNCHANGED <<userStates, OFFER_TIMING, frame, nCalls>>

Init == InitWith(RacingEnvValues)

\* requests of two clients, interleaved at every await
Next ==
  \E p \in Procs :
    \/ RejectMessage(p, UserIds)
    \/ ReceiveMessage(p, UserIds, MaxCalls)
    \/ Classify(p, RacingReplies)
    \/ UpdateState(p)
    \/ RunHandler(p, RacingHandlerOutcomes)
    \/ Recommend(p, RacingRecommenderReplies)
    \/ Respond(p)

Spec == Init /\ [][Next]_vars

SeqInit == InitWith(EnvValues)

\* one client that sends each message after the previous answer
SeqNext ==
  \E p \in SeqProcs :
    \/ RejectMessage(p, SeqUserIds)
    \/ ReceiveMessage(p, SeqUserIds, MaxSeqCalls)
    \/ Classify(p, ClassifierReplies)
    \/ UpdateState(p)
    \/ RunHandler(p, HandlerOutcomes)
    \/ Recommend(p, RecommenderReplies)
    \/ Respond(p)

SeqSpec == SeqInit /\ [][SeqNext]_vars

(* ------------------------------------------- the pure functions, directly *)
ProbeCounts == (0 - 1)..MaxProbeCount
ProbeIntents == Intents \cup {UnknownLabel, Undefined, Null}
\* states handed to the policy: with a messageCount, and without one
ProbeStates ==
  { [messageCount |-> n] : n \in 0..MaxProbeCount } \cup { [preferences |-> <<>>] }

PureInit == InitWith(EnvValues)

ApplyStage ==
  /\ \E n \in ProbeCounts, i \in ProbeIntents :
       LET state == [messageCount |-> n, lastIntent |-> i] IN
       probe' = [ fn |-> "determineConversationStage", state |-> state,
                  stage |-> determineConversationStage(state) ]
  /\ UNCHANGED <<userStates, OFFER_TIMING, frame, nCalls>>

ApplyPolicy ==
  /\ \E i \in ProbeIntents, s \in ProbeStates :
       probe' = [ fn |-> "shouldOfferRecommendations", intent |-> i,
                  userState |-> s,
                  result |-> shouldOfferRecommendations(i, s) ]
  /\ UNCHANGED <<userStates, OFFER_TIMING, frame, nCalls>>

\* intent values handed to the handler lookup: the nine labels, an unknown
\* label, an empty, missing or null intent, and names of inherited members
LookupIntents ==
  Intents \cup {UnknownLabel, "", Undefined, Null} \cup DOMAIN ObjectPrototype

ApplyLookup ==
  /\ \E i \in LookupIntents :
       probe' = [ fn |-> "getHandlerForIntent", intent |-> i,
                  handler |-> getHandlerForIntent(i) ]
  /\ UNCHANGED <<userStates, OFFER_TIMING, frame, nCalls>>

PureNext == ApplyStage \/ ApplyPolicy \/ ApplyLookup

PureSpec == PureInit /\ [][PureNext]_vars

(* ------------------------------- one long conversation, with its routes *)
MaxLongCalls == 6

LongEnvValues == {"balanced"}
LongReplies == { [kind |-> "object", intent |-> i] : i \in Intents }
LongHandlerOutcomes == { [kind |-> "return", response |-> "reply"] }
LongRecommenderReplies == { [kind |-> "error"] }

LongInit == InitWith(LongEnvValues)

\* one client that starts a conversation, sends each message after the
\* previous answer, ends the conversation, and may go on sending
LongNext ==
  \E p \in SeqProcs :
    \/ StartConversation(p, SeqUserIds)
    \/ RejectMessage(p, SeqUserIds)
    \/ ReceiveMessage(p, SeqUserIds, MaxLongCalls)
    \/ Classify(p, LongReplies)
    \/ UpdateState(p)
    \/ RunHandler(p, LongHandlerOutcomes)
    \/ Recommend(p, LongRecommenderReplies)
    \/ Respond(p)
    \/ EndConversation(p, SeqUserIds)

LongSpec == LongInit /\ [][LongNext]_vars

(* --------------------------------- two overlapping requests of one user *)
MaxRaceCalls == 2

RaceInit == InitWith(RacingEnvValues)

RaceNext ==
  \E p \in Procs :
    \/ RejectMessage(p, SeqUserIds)
    \/ ReceiveMessage(p, SeqUserIds, MaxRaceCalls)
    \/ Classify(p, RacingReplies)
    \/ UpdateState(p)
    \/ RunHandler(p, RacingHandlerOutcomes)
    \/ Recommend(p, RacingRecommenderReplies)
    \/ Respond(p)

RaceSpec == RaceInit /\ [][RaceNext]_vars

\* a running request goes on: every completion request returns or fails, and
\* the continuation after an await is run
Continue(p) ==
  \/ Classify(p, RacingReplies)
  \/ UpdateState(p)
  \/ RunHandler(p, RacingHandlerOutcomes)
  \/ Recommend(p, RacingRecommenderReplies)
  \/ Respond(p)

FairRaceSpec == RaceSpec /\ \A p \in Procs : WF_vars(Continue(p))

(* ================================================================ claims *)
IsPrefix(s, t) == Len(s) <= Len(t) /\ SubSeq(t, 1, Len(s)) = s

Stored == DOMAIN userStates

\* a request whose processMessage is past the state update
PastUpdate(f) == f.pc \in {"handle", "recommend", "respond"} /\ f.handler # ""

HasRecommendationAction(actions) ==
  \E i \in 1..Len(actions) : actions[i].type = "product_recommendations"

\* C1: the stored messageCount of a userId never decreases in a step, also
\* when processMessage calls for that userId overlap.
C1_MessageCountNeverDecreases ==
  [][ \A u \in Stored :
        userStates'[u].messageCount >= userStates[u].messageCount ]_vars

\* C2: when one client has sent n messages one after the other and the last
\* is answered, the stored messageCount is n.
C2_CountEqualsMessagesSent ==
  (\A p \in Procs : frame[p].pc = "idle")
    => \A u \in Stored : userStates[u].messageCount = nCalls[u]

\* C3: in every step, under every interleaving, the stored history before
\* the step is a prefix of the stored history after it.
C3_HistoryAppendOnly ==
  [][ \A u \in Stored :
        IsPrefix(userStates[u].conversationHistory,
                 userStates'[u].conversationHistory) ]_vars

\* C3 witness: a history of user and assistant entries written while another
\* request for the same userId is between its awaits.
C3_Witness ==
  \E u \in Stored, p \in Procs :
    /\ frame[p].pc = "handle" /\ frame[p].userId = u
    /\ Len(userStates[u].conversationHistory) >= 3
    /\ \E i, j \in 1..Len(userStates[u].conversationHistory) :
         /\ i < j
         /\ userStates[u].conversationHistory[i].role = "assistant"
         /\ userStates[u].conversationHistory[j].role = "user"

\* C4: every stored state's stage is the stage determineConversationStage
\* gives for that state's own messageCount and lastIntent.
C4_StageIsDerived ==
  \A u \in Stored :
    userStates[u].stage =
      determineConversationStage(
        [ messageCount |-> userStates[u].messageCount,
          lastIntent |-> userStates[u].lastIntent ])

\* C4 witness: a state written by addBotResponse whose stage is past greeting.
C4_Witness ==
  \E u \in Stored :
    LET h == userStates[u].conversationHistory IN
    /\ userStates[u].stage = "objection_handling"
    /\ userStates[u].messageCount = 3
    /\ Len(h) > 0 /\ h[Len(h)].role = "assistant"

IntentRuleLabels == {"checkout_help", "product_inquiry", "price_inquiry", "objection"}

\* C5: determineConversationStage follows the rule table: messageCount <= 1
\* gives greeting whatever the intent; above 1, checkout_help gives checkout,
\* product_inquiry and price_inquiry give product_discovery, objection gives
\* objection_handling; any other intent gives engagement from 5 messages on
\* and information below.
C5_StageRuleTable ==
  probe.fn = "determineConversationStage" =>
    LET n == probe.state.messageCount
        i == probe.state.lastIntent
    IN /\ n <= 1 => probe.stage = "greeting"
       /\ n > 1 /\ i = "checkout_help" => probe.stage = "checkout"
       /\ n > 1 /\ i \in {"product_inquiry", "price_inquiry"}
            => probe.stage = "product_discovery"
       /\ n > 1 /\ i = "objection" => probe.stage = "objection_handling"
       /\ n >= 5 /\ i \notin IntentRuleLabels => probe.stage = "engagement"
       /\ n \in 2..4 /\ i \notin IntentRuleLabels => probe.stage = "information"

\* C5 witness: an objection after 5 messages, where the objection rule wins
\* over the engagement rule.
C5_Witness ==
  /\ probe.fn = "determineConversationStage"
  /\ probe.state.messageCount >= 5
  /\ probe.state.lastIntent = "objection"
  /\ probe.stage = "objection_handling"

\* C6: for the intent product_inquiry shouldOfferRecommendations is true, for
\* every state (also one without a messageCount) and every timing mode.
C6_ProductInquiryAlwaysOffers ==
  (probe.fn = "shouldOfferRecommendations" /\ probe.intent = "product_inquiry")
    => probe.result = TRUE

\* C6 witness: product_inquiry on a state without messageCount, mode 'late'.
C6_Witness ==
  /\ probe.fn = "shouldOfferRecommendations"
  /\ probe.intent = "product_inquiry"
  /\ "messageCount" \notin DOMAIN probe.userState
  /\ OFFER_TIMING = "late"
  /\ probe.result = TRUE

\* the threshold the rule names for an explicitly set mode
SetModeThreshold(mode) ==
  IF mode = "early" THEN 2 ELSE IF mode = "balanced" THEN 3 ELSE 5

\* messageCount of a probed state, 0 when it has none
ProbedCount ==
  IF "messageCount" \in DOMAIN probe.userState
    THEN probe.userState.messageCount ELSE 0

\* C7: for an intent other than product_inquiry and an explicitly set mode,
\* shouldOfferRecommendations is true iff messageCount reaches the mode's
\* threshold: 2 for early, 3 for balanced, 5 for any other set value.
C7_ThresholdOfSetMode ==
  ( /\ probe.fn = "shouldOfferRecommendations"
    /\ probe.intent # "product_inquiry"
    /\ Truthy(OFFER_TIMING) )
    => (probe.result <=> ProbedCount >= SetModeThreshold(OFFER_TIMING))

\* C7 witness: mode 'early' at messageCount 2, where the answer turns true.
C7_Witness ==
  /\ probe.fn = "shouldOfferRecommendations"
  /\ probe.intent = "general_question"
  /\ OFFER_TIMING = "early"
  /\ ProbedCount = 2
  /\ probe.result = TRUE

\* C8 as stated: with no mode configured the threshold is 5.
C8_UnsetModeThresholdFive ==
  ( /\ probe.fn = "shouldOfferRecommendations"
    /\ probe.intent # "product_inquiry"
    /\ ~Truthy(OFFER_TIMING) )
    => (probe.result <=> ProbedCount >= 5)

\* C8 amended: with no mode configured the mode is 'balanced' and the
\* threshold for an intent other than product_inquiry is 3: false up to
\* messageCount 2, true from 3.
C8_UnsetModeThresholdThree ==
  ( /\ probe.fn = "shouldOfferRecommendations"
    /\ probe.intent # "product_inquiry"
    /\ ~Truthy(OFFER_TIMING) )
    => (probe.result <=> ProbedCount >= 3)

\* C8 witness: no mode configured, messageCount 3, recommendations offered.
C8_Witness ==
  /\ probe.fn = "shouldOfferRecommendations"
  /\ probe.intent = "complaint"
  /\ ~Truthy(OFFER_TIMING)
  /\ ProbedCount = 3
  /\ probe.result = TRUE

\* C9: when the policy has been evaluated for a message of a client that
\* sends one message after the other, and the intent is not product_inquiry,
\* its answer is the comparison of the count the state update just stored
\* (the count after the increment) with the mode's threshold.
C9_PolicySeesIncrementedCount ==
  \A p \in Procs :
    (frame[p].policyEvaluated /\ frame[p].intent # "product_inquiry")
      => ( frame[p].offer <=>
             userStates[frame[p].userId].messageCount
               >= SetModeThreshold(offerTiming) )

\* C10: for the first message of a fresh conversation with a classified
\* intent other than product_inquiry, in every timing mode: the
\* recommendation request is never issued, the returned actions hold no
\* product_recommendations entry, and the stored state has stage greeting
\* and messageCount 1.
C10_FirstMessageNoRecommendation ==
  \A p \in Procs :
    ( /\ PastUpdate(frame[p])
      /\ nCalls[frame[p].userId] = 1
      /\ frame[p].intent # "product_inquiry" )
      => /\ frame[p].pc # "recommend"
         /\ ~HasRecommendationAction(frame[p].actions)
         /\ userStates[frame[p].userId].stage = "greeting"
         /\ userStates[frame[p].userId].messageCount = 1

\* C10 witness: the first message, classified objection, answered by its
\* handler in mode 'early'.
C10_Witness ==
  \E p \in Procs :
    /\ frame[p].pc = "respond"
    /\ nCalls[frame[p].userId] = 1
    /\ frame[p].intent = "objection"
    /\ frame[p].response = "reply"
    /\ frame[p].policyEvaluated
    /\ OFFER_TIMING = "early"

\* the number of user entries with the given content in a history
UserEntries(history, text) ==
  Cardinality({ i \in 1..Len(history) :
                  history[i].role = "user" /\ history[i].content = text })

TrailingUserEntry(history, text) ==
  /\ Len(history) > 0
  /\ history[Len(history)].role = "user"
  /\ history[Len(history)].content = text

\* the step in which request p runs its updateUserState call
UpdateStep(p) == frame[p].pc = "update" /\ frame'[p].pc = "handle"

\* C11: an updateUserState call whose lastMessage content is that of the user
\* entry the previous history write appended (the previous updateUserState call
\* for the userId carried the same content, and nothing wrote the history in
\* between) appends nothing: the history is unchanged and holds exactly one
\* user entry with that content.
C11_RepeatedUpdateKeepsOneEntry ==
  [][ \A p \in Procs :
        ( /\ UpdateStep(p)
          /\ frame[p].userId \in Stored
          /\ TrailingUserEntry(userStates[frame[p].userId].conversationHistory,
                               frame[p].message) )
        => LET u == frame[p].userId IN
           /\ userStates'[u].conversationHistory = userStates[u].conversationHistory
           /\ UserEntries(userStates'[u].conversationHistory, frame[p].message) = 1
    ]_vars

\* two overlapping requests of one user carried the same text, both have run
\* their updateUserState call, and nothing else wrote the history
C11_Witness ==
  /\ frame["p1"].pc = "handle" /\ frame["p2"].pc = "handle"
  /\ frame["p1"].userId = frame["p2"].userId
  /\ frame["p1"].message = "hi" /\ frame["p2"].message = "hi"
  /\ frame["p1"].userId \in Stored
  /\ LET history == userStates[frame["p1"].userId].conversationHistory IN
     /\ Len(history) = 1
     /\ UserEntries(history, "hi") = 1

\* C12: updateUserState leaves the history alone only when its trailing entry
\* is a user entry with the content of lastMessage; in every other case, also
\* when the content occurs earlier in the history and other entries follow it,
\* it appends exactly one user entry with that content.
C12_SkipsOnlyTrailingDuplicate ==
  [][ \A p \in Procs :
        (UpdateStep(p) /\ frame[p].userId \in Stored)
        => LET u == frame[p].userId
               old == userStates[u].conversationHistory
               new == userStates'[u].conversationHistory
           IN IF TrailingUserEntry(old, frame[p].message)
                THEN new = old
                ELSE /\ Len(new) = Len(old) + 1
                     /\ IsPrefix(old, new)
                     /\ TrailingUserEntry(new, frame[p].message)
    ]_vars

\* C13: when the completion call or the parsing of its reply threw inside
\* classifyIntent, classifyIntent resolved to {intent: 'general_question',
\* confidence: 0.5} (processMessage goes on to the state update), the state
\* update of that request stores lastIntent = 'general_question', and the
\* response processMessage returns is a non-empty string.
C13_ClassifierFailureFallsBack ==
  [][ \A p \in Procs :
        "classifyIntent" \in frame'[p].caught
        => /\ frame'[p].intent = "general_question"
           /\ frame'[p].confidence = "0.5"
           /\ frame'[p].pc \in {"update", "handle", "recommend", "respond"}
           /\ UpdateStep(p)
                => userStates'[frame[p].userId].lastIntent = "general_question"
           /\ frame'[p].pc = "respond"
                => /\ frame'[p].handler # ""
                   /\ Truthy(frame'[p].response)
    ]_vars

\* a request whose classification failed is about to answer with the
\* handler's response, and the stored lastIntent is the fallback
C13_Witness ==
  \E p \in Procs :
    /\ "classifyIntent" \in frame[p].caught
    /\ frame[p].pc = "respond"
    /\ frame[p].response # Apology
    /\ frame[p].userId \in Stored
    /\ userStates[frame[p].userId].lastIntent = "general_question"
    /\ userStates[frame[p].userId].lastMessage = frame[p].message

\* C14: processMessage never raises to the route (no request is answered by
\* the route's own catch, status 500), and a request in which a step of
\* processMessage threw returns the fixed apology with an empty actions list.
C14_ThrowBecomesApology ==
  \A p \in Procs :
    /\ frame[p].status # "500"
    /\ "processMessage" \in frame[p].caught
         => /\ frame[p].pc = "respond"
            /\ frame[p].response = Apology
            /\ frame[p].actions = <<>>

\* the handler threw after the state update, and the apology is on its way
C14_Witness ==
  \E p \in Procs :
    /\ "processMessage" \in frame[p].caught
    /\ frame[p].handler # ""
    /\ frame[p].pc = "respond"
    /\ frame[p].response = Apology
    /\ frame[p].userId \in Stored
    /\ userStates[frame[p].userId].lastMessage = frame[p].message

\* the actions of the handler's result, none when the result has no list
ResultActions(f) ==
  IF "actions" \in DOMAIN f.result THEN f.result.actions ELSE <<>>

\* C15: when the completion call or the parsing threw inside
\* getProductRecommendations, it resolved to the empty list and the turn
\* completes normally: processMessage's catch has not run, and it returns the
\* handler's response and exactly the handler's actions, with no
\* 'product_recommendations' action and not the apology.
C15_RecommenderFailureIsLocal ==
  \A p \in Procs :
    "getProductRecommendations" \in frame[p].caught
    => /\ frame[p].recommendations = <<>>
       /\ frame[p].pc = "respond"
       /\ "processMessage" \notin frame[p].caught
       /\ frame[p].response = frame[p].result.response
       /\ frame[p].response # Apology
       /\ frame[p].actions = ResultActions(frame[p])
       /\ ~HasRecommendationAction(frame[p].actions)

\* the generator failed in a turn whose handler returned an action
C15_Witness ==
  \E p \in Procs :
    /\ "getProductRecommendations" \in frame[p].caught
    /\ frame[p].pc = "respond"
    /\ frame[p].offer
    /\ frame[p].response = "reply"
    /\ frame[p].actions = <<HandlerAction>>

\* C16: on a turn that does not end in the apology, the returned actions are
\* the handler's actions (none if the handler returned no list) followed by
\* the one entry {type: 'product_recommendations', products: L} if the policy
\* was true and the generator returned a non-empty list L, and the handler's
\* actions unchanged otherwise.
C16_ActionsAreHandlersPlusOffer ==
  \A p \in Procs :
    (frame[p].pc = "respond" /\ "processMessage" \notin frame[p].caught)
    => LET f == frame[p]
           L == f.recommendations
       IN IF shouldOfferRecommendations(f.intent, f.userState) /\ Len(L) > 0
            THEN f.actions =
                   ResultActions(f)
                     \o << [type |-> "product_recommendations", products |-> L] >>
            ELSE f.actions = ResultActions(f)

\* a turn returns the handler's action followed by the recommendations
C16_Witness ==
  \E p \in Procs :
    /\ frame[p].pc = "respond"
    /\ "processMessage" \notin frame[p].caught
    /\ frame[p].recommendations = <<Product>>
    /\ frame[p].actions =
         << HandlerAction,
            [type |-> "product_recommendations", products |-> <<Product>>] >>

\* C17: getHandlerForIntent returns the dedicated handler for each of the nine
\* categories, and the general_question handler for every other intent value.
C17_LookupFallsBackToGeneral ==
  probe.fn = "getHandlerForIntent"
  => IF probe.intent \in Intents
       THEN /\ probe.handler = intentHandlers[probe.intent]
            /\ \A other \in Intents \ {probe.intent} :
                 probe.handler # intentHandlers[other]
       ELSE probe.handler = "general-question-handler"

\* C18: the lastIntent of every stored state is null or one of the nine
\* labels of the category set.
C18_LastIntentInCategorySet ==
  \A u \in Stored : userStates[u].lastIntent \in Intents \cup {Null}

\* the userId a step of request p works for: the one it is received with, or
\* the one it is running for
SteppingFor(p) ==
  IF frame[p].pc = "idle" THEN frame'[p].userId ELSE frame[p].userId

\* C19: a step of a request for userId A (getUserState, updateUserState,
\* addBotResponse or any other step of its processMessage call) leaves every
\* other userId B as it was: B has a stored state after the step exactly if it
\* had one before, that state is unchanged, and so are the requests running
\* for B. B's stored state is therefore written by B's calls only.
C19_OtherUsersUntouched ==
  [][ \A p \in Procs :
        frame'[p] # frame[p]
        => \A B \in UserIds \ {SteppingFor(p)} :
             /\ (B \in Stored) = (B \in DOMAIN userStates')
             /\ B \in Stored => userStates'[B] = userStates[B]
             /\ \A q \in Procs : frame[q].userId = B => frame'[q] = frame[q]
    ]_vars

\* requests for two userIds overlap, and each userId's stored state holds
\* its own message
C19_Witness ==
  /\ frame["p1"].pc = "respond" /\ frame["p1"].userId = "u1"
  /\ frame["p2"].pc = "handle" /\ frame["p2"].userId = "u2"
  /\ Stored = {"u1", "u2"}
  /\ userStates["u1"].lastMessage = "hi"
  /\ userStates["u2"].lastMessage = "buy"
  /\ userStates["u1"].messageCount = 1
  /\ userStates["u2"].messageCount = 1

\* C20: the state update of a request writes messageCount = old + 1, where old
\* is the count of the state the request read before its classification, and
\* its own lastIntent and lastMessage, whatever other requests for the userId
\* stored in between. Two overlapping requests that read the same state
\* therefore store the same count (the witness: two messages processed, count
\* risen by 1), and lastIntent and lastMessage are those of the later write.
C20_UpdateWritesSnapshotCountPlusOne ==
  [][ \A p \in Procs :
        UpdateStep(p)
        => LET u == frame[p].userId IN
           /\ userStates'[u].messageCount = frame[p].userState.messageCount + 1
           /\ userStates'[u].lastIntent = frame[p].intent
           /\ userStates'[u].lastMessage = frame[p].message
    ]_vars

\* the lost update: the only two requests of the conversation read the fresh
\* state, both have run their state update with different texts, and the
\* stored count is 1; lastIntent and lastMessage are those of one of the two
C20_Witness ==
  \E u \in UserIds, p \in Procs, q \in Procs :
    /\ p # q
    /\ nCalls[u] = 2
    /\ frame[p].userId = u /\ frame[q].userId = u
    /\ PastUpdate(frame[p]) /\ frame[q].pc = "handle"
    /\ frame[p].userState.messageCount = 0
    /\ frame[q].userState.messageCount = 0
    /\ frame[p].message # frame[q].message
    /\ frame[p].intent # frame[q].intent
    /\ userStates[u].messageCount = 1
    /\ userStates[u].lastMessage = frame[q].message
    /\ userStates[u].lastIntent = frame[q].intent
    /\ Len(userStates[u].conversationHistory) = 2

\* C21: a message request with a missing or empty message never runs
\* processMessage (every running request carries a non-empty message); it is
\* answered with status 400, without the apology, in a step that creates and
\* changes no stored state and issues no completion request.
C21_EmptyMessageRejected ==
  [][ \A p \in Procs :
        /\ frame'[p].pc # "idle" => Truthy(frame'[p].message)
        /\ (frame'[p] # frame[p] /\ frame'[p].status = "400")
             => /\ frame[p].pc = "idle"
                /\ frame'[p].pc = "idle"
                /\ frame'[p].response # Apology
                /\ frame'[p].requests.classifyIntent = 0
                /\ userStates' = userStates
                /\ nCalls' = nCalls
    ]_vars

\* a request was rejected after an answered one; the stored state is the one
\* the answered request left
C21_Witness ==
  \E p \in Procs :
    /\ frame[p].pc = "idle" /\ frame[p].status = "400"
    /\ Stored = {"u1"}
    /\ nCalls["u1"] = 1
    /\ userStates["u1"].messageCount = 1
    /\ Len(userStates["u1"].conversationHistory) = 2

\* the step in which request p is accepted and loads the state of its userId
ReceiveStep(p) == frame[p].pc = "idle" /\ frame'[p].pc = "classify"

\* C22: a stored state is created by the first lookup of its identifier, with
\* messageCount 0, an empty history, empty preferences, lastIntent null and
\* stage 'greeting'; it is never removed and never reset (its count does not
\* return to 0 and its history is only extended); startConversation and
\* endConversation leave every stored state and request as they are; and a
\* request for an identifier that has a stored state, also one issued after
\* endConversation, loads that state as it stands.
C22_StateIsLazyAndKept ==
  [][ /\ Stored \subseteq DOMAIN userStates'
      /\ \A u \in (DOMAIN userStates') \ Stored :
           /\ \E p \in Procs : ReceiveStep(p) /\ frame'[p].userId = u
           /\ userStates'[u].messageCount = 0
           /\ userStates'[u].conversationHistory = <<>>
           /\ userStates'[u].preferences = <<>>
           /\ userStates'[u].lastIntent = Null
           /\ userStates'[u].stage = "greeting"
      /\ \A u \in Stored :
           /\ userStates[u].messageCount > 0 => userStates'[u].messageCount > 0
           /\ IsPrefix(userStates[u].conversationHistory,
                       userStates'[u].conversationHistory)
      /\ probe' # probe => (userStates' = userStates /\ frame' = frame)
      /\ \A p \in Procs :
           (ReceiveStep(p) /\ frame'[p].userId \in Stored)
           => /\ userStates' = userStates
              /\ frame'[p].userState = userStates[frame'[p].userId]
    ]_vars

\* after endConversation a further message of the conversation was accepted,
\* and it continues from the stored count and history
C22_Witness ==
  /\ probe.fn = "endConversation"
  /\ probe.conversationId = "u1"
  /\ frame["p1"].pc = "classify"
  /\ frame["p1"].userId = "u1"
  /\ frame["p1"].userState.messageCount = 2
  /\ Len(frame["p1"].userState.conversationHistory) = 4
  /\ userStates["u1"] = frame["p1"].userState

\* C23: a processMessage call issues its one classification request (none
\* before, exactly one after the classification step, also when the request
\* failed) and at most one recommendation request (one exactly when the
\* policy was true and the call got that far), and a call whose completion
\* requests each return or fail returns: every running request is answered.
C23_NoRetryAndReturns ==
  /\ [](\A p \in Procs :
          /\ frame[p].requests.classifyIntent =
               (IF frame[p].pc \in {"idle", "classify"} THEN 0 ELSE 1)
          /\ frame[p].requests.getProductRecommendations =
               (IF frame[p].pc = "respond" /\ frame[p].offer THEN 1 ELSE 0))
  /\ \A p \in Procs : (frame[p].pc # "idle") ~> (frame[p].pc = "idle")

\* the classification request of one call and the recommendation request of
\* an overlapping call failed; each request was issued once, and both calls
\* have returned the handler's response to the route
C23_Witness ==
  \E p \in Procs, q \in Procs :
    /\ frame[p].pc = "respond" /\ frame[q].pc = "respond"
    /\ frame[p].caught = {"classifyIntent"}
    /\ frame[p].requests.classifyIntent = 1
    /\ frame[p].requests.getProductRecommendations = 0
    /\ frame[q].caught = {"getProductRecommendations"}
    /\ frame[q].requests.classifyIntent = 1
    /\ frame[q].requests.getProductRecommendations = 1
    /\ frame[p].response = "reply" /\ frame[q].response = "reply"

\* the order of the positions of a processMessage call: state load, intent
\* classification, state update, handler invocation with the policy, the
\* optional recommendation request, return (respond: the route's turn)
StepOrder ==
  { <<"idle", "idle">>, <<"idle", "classify">>, <<"classify", "update">>,
    <<"classify", "respond">>, <<"update", "handle">>,
    <<"handle", "recommend">>, <<"handle", "respond">>,
    <<"recommend", "respond">>, <<"respond", "idle">> }

\* C24: the steps of one processMessage call occur in the order state load,
\* classification, state update, handler invocation, policy evaluation,
\* optional recommendation request, return. In particular lastIntent,
\* lastMessage and messageCount are only written by the update step of a call
\* whose classification request has completed, the handler is invoked after
\* the update, the policy is evaluated once the handler has returned, and the
\* recommendation request is issued after both.
C24_StepsInOrder ==
  [][ /\ \A p \in Procs :
           /\ <<frame[p].pc, frame'[p].pc>> \in StepOrder \/ frame'[p] = frame[p]
           /\ ReceiveStep(p) => frame'[p].userState = userStates'[frame'[p].userId]
           /\ UpdateStep(p) => /\ frame[p].requests.classifyIntent = 1
                               /\ frame[p].handler = ""
           /\ frame'[p].handler # frame[p].handler
                => frame[p].pc = "handle" \/ frame'[p].pc = "idle"
           /\ (frame'[p].policyEvaluated /\ ~frame[p].policyEvaluated)
                => frame[p].pc = "handle" /\ frame'[p].result.kind = "return"
           /\ frame'[p].requests.getProductRecommendations
                > frame[p].requests.getProductRecommendations
                => /\ frame[p].pc = "recommend"
                   /\ frame[p].result.kind = "return"
                   /\ frame[p].policyEvaluated /\ frame[p].offer
      /\ \A u \in Stored :
           ( \/ userStates'[u].lastIntent # userStates[u].lastIntent
             \/ userStates'[u].lastMessage # userStates[u].lastMessage
             \/ userStates'[u].messageCount # userStates[u].messageCount )
           => \E p \in Procs : UpdateStep(p) /\ frame[p].userId = u
    ]_vars

\* a call went through every step: it classified, updated, ran the handler,
\* found the policy true, got a recommendation and returned
C24_Witness ==
  \E p \in Procs :
    /\ frame[p].pc = "respond"
    /\ frame[p].requests.classifyIntent = 1
    /\ frame[p].requests.getProductRecommendations = 1
    /\ frame[p].result.kind = "return"
    /\ frame[p].policyEvaluated /\ frame[p].offer
    /\ frame[p].recommendations = <<Product>>
    /\ HasRecommendationAction(frame[p].actions)
    /\ userStates[frame[p].userId].lastMessage = frame[p].message

\* the stage the rule table gives for a count and an intent
StageOf(count, intent) ==
  IF count <= 1 THEN "greeting"
  ELSE IF intent = "checkout_help" THEN "checkout"
  ELSE IF intent \in {"product_inquiry", "price_inquiry"} THEN "product_discovery"
  ELSE IF intent = "objection" THEN "objection_handling"
  ELSE IF count >= 5 THEN "engagement"
  ELSE "information"

\* C25: the stage a state update stores is the one the rule table gives for
\* the new messageCount and lastIntent, whatever the stage was before; from a
\* stored stage 'engagement' a message classified 'objection' moves the stage
\* to 'objection_handling'.
C25_StageIgnoresPreviousStage ==
  [][ \A p \in Procs :
        UpdateStep(p)
        => LET old == userStates[frame[p].userId]
               new == userStates'[frame[p].userId]
           IN /\ new.stage = StageOf(new.messageCount, new.lastIntent)
              /\ (old.stage = "engagement" /\ frame[p].intent = "objection")
                   => new.stage = "objection_handling"
    ]_vars

\* the sixth message of a conversation in stage 'engagement' was classified
\* 'objection', and the stored stage is now 'objection_handling'
C25_Witness ==
  /\ frame["p1"].pc = "handle"
  /\ frame["p1"].userState.stage = "engagement"
  /\ frame["p1"].userState.messageCount = 5
  /\ frame["p1"].intent = "objection"
  /\ userStates["u1"].messageCount = 6
  /\ userStates["u1"].stage = "objection_handling"

\* the step in which the route of request p stores the answer and responds
RespondStep(p) == frame[p].pc = "respond" /\ frame'[p].pc = "idle"

AssistantEntries(history) ==
  Cardinality({ i \in 1..Len(history) : history[i].role = "assistant" })

\* the requests of a userId that are still running after the step
RunningFor(u) == { p \in Procs : frame'[p].pc # "idle" /\ frame'[p].userId = u }

C27_ApologyKeepsStateUpdate ==
  [][ \A p \in Procs :
        "processMessage" \in frame'[p].caught
        => LET f == frame'[p]
               stored == userStates'[f.userId]
           IN /\ "processMessage" \notin frame[p].caught
                   => userStates' = userStates
              /\ IF f.handler # ""
                   THEN /\ stored.messageCount = f.userState.messageCount + 1
                        /\ stored.lastIntent = f.intent
                        /\ stored.lastMessage = f.message
                        /\ UserEntries(stored.conversationHistory, f.message) = 1
                        /\ stored.stage =
                             StageOf(stored.messageCount, stored.lastIntent)
                   ELSE stored = f.userState
    ]_vars

\* the handler threw on the second message: the apology is on its way and
\* the stored state is the updated one
C27_Witness ==
  \E p \in Procs :
    /\ "processMessage" \in frame[p].caught
    /\ frame[p].handler # ""
    /\ frame[p].response = Apology
    /\ frame[p].message = "buy"
    /\ frame[p].intent = "objection"
    /\ frame[p].userState.messageCount = 1
    /\ userStates[frame[p].userId].messageCount = 2
    /\ userStates[frame[p].userId].lastIntent = "objection"
    /\ userStates[frame[p].userId].lastMessage = "buy"
    /\ userStates[frame[p].userId].stage = "objection_handling"
    /\ Len(userStates[frame[p].userId].conversationHistory) = 3

\* C28: the state a call hands to the handler, to the policy and to the
\* recommendation generator is the one it loaded at its start and keeps
\* through all its steps. At the state update it is the state as stored
\* before the update: its messageCount is one below the stored count, its
\* lastIntent is the previous message's, and its history lacks the user entry
\* the update appends. The policy's answer is the one for that earlier count.
C28_HandlerSeesLoadedSnapshot ==
  [][ \A p \in Procs :
        /\ (frame[p].pc # "idle" /\ frame'[p].pc # "idle")
             => frame'[p].userState = frame[p].userState
        /\ UpdateStep(p)
             => LET snapshot == frame'[p].userState
                    before == userStates[frame[p].userId]
                    after == userStates'[frame[p].userId]
                IN /\ snapshot = before
                   /\ snapshot.messageCount = after.messageCount - 1
                   /\ snapshot.lastIntent = before.lastIntent
                   /\ after.lastIntent = frame[p].intent
                   /\ UserEntries(snapshot.conversationHistory, frame[p].message) = 0
                        => /\ Len(after.conversationHistory)
                                = Len(snapshot.conversationHistory) + 1
                           /\ UserEntries(after.conversationHistory,
                                          frame[p].message) = 1
        /\ (frame[p].pc = "handle" /\ frame'[p].policyEvaluated)
             => frame'[p].offer =
                  shouldOfferRecommendations(
                    frame[p].intent,
                    [messageCount |->
                       userStates[frame[p].userId].messageCount - 1])
    ]_vars

\* with 'early' the second message, a general question, gets no
\* recommendation: the policy read the loaded count 1, the stored count is 2
C28_Witness ==
  \E p \in Procs :
    /\ OFFER_TIMING = "early"
    /\ frame[p].pc = "respond"
    /\ frame[p].policyEvaluated /\ ~frame[p].offer
    /\ frame[p].intent = "general_question"
    /\ frame[p].userState.messageCount = 1
    /\ frame[p].userState.lastIntent = "greeting"
    /\ Len(frame[p].userState.conversationHistory) = 2
    /\ userStates[frame[p].userId].messageCount = 2
    /\ userStates[frame[p].userId].lastIntent = "general_question"
    /\ Len(userStates[frame[p].userId].conversationHistory) = 3

\* C29: the route's step after processMessage returned appends exactly one
\* assistant entry, holding the returned response (the apology included), to
\* the history as stored at that moment, also when the same text is already
\* there; no other step adds or removes an assistant entry.
C29_OneAssistantEntryPerAnswer ==
  [][ \A p \in Procs :
        LET u == IF frame[p].pc = "idle" THEN frame'[p].userId
                 ELSE frame[p].userId
        IN frame'[p] # frame[p] /\ u \in Stored
           => IF RespondStep(p)
                THEN userStates'[u].conversationHistory =
                       Append(userStates[u].conversationHistory,
                              [ role |-> "assistant",
                                content |-> frame[p].response,
                                timestamp |-> Date ])
                ELSE AssistantEntries(userStates'[u].conversationHistory)
                       = AssistantEntries(userStates[u].conversationHistory)
    ]_vars

\* two requests ended in the apology, and the history holds it twice
C29_Witness ==
  /\ "u1" \in Stored
  /\ nCalls["u1"] = 2
  /\ frame["p1"].pc = "idle" /\ frame["p2"].pc = "idle"
  /\ LET history == userStates["u1"].conversationHistory IN
     /\ AssistantEntries(history) = 2
     /\ \E i \in 1..Len(history), j \in 1..Len(history) :
          /\ i < j
          /\ history[i].role = "assistant" /\ history[j].role = "assistant"
          /\ history[i].content = Apology /\ history[j].content = Apology

\* C30: addBotResponse, the route's step after processMessage returned,
\* changes conversationHistory and updatedAt only: messageCount, lastIntent,
\* lastMessage, stage, preferences and createdAt of the userId stay as they
\* were; and no step of the engine changes the preferences or createdAt of a
\* stored state.
C30_AddBotResponseFrame ==
  [][ /\ \A p \in Procs :
           RespondStep(p) /\ frame[p].userId \in Stored
           => LET old == userStates[frame[p].userId]
                  new == userStates'[frame[p].userId]
              IN /\ new.messageCount = old.messageCount
                 /\ new.lastIntent = old.lastIntent
                 /\ new.lastMessage = old.lastMessage
                 /\ new.stage = old.stage
                 /\ new.preferences = old.preferences
                 /\ new.createdAt = old.createdAt
                 /\ new.updatedAt = Date
                 /\ Len(new.conversationHistory) = Len(old.conversationHistory) + 1
      /\ \A u \in Stored :
           /\ userStates'[u].preferences = userStates[u].preferences
           /\ userStates'[u].createdAt = userStates[u].createdAt
    ]_vars

\* a second message was classified an objection and answered: the stored
\* state is the one its state update wrote, plus the answer
C30_Witness ==
  \E p \in Procs :
    /\ frame[p].pc = "idle" /\ frame[p].status = "200"
    /\ "u1" \in Stored
    /\ nCalls["u1"] = 2
    /\ userStates["u1"].messageCount = 2
    /\ userStates["u1"].lastIntent = "objection"
    /\ userStates["u1"].stage = "objection_handling"
    /\ userStates["u1"].preferences = <<>>
    /\ userStates["u1"].createdAt = Date
    /\ LET history == userStates["u1"].conversationHistory IN
       /\ Len(history) = 4
       /\ history[4].role = "assistant"

====
